---- MODULE Spec2Model ----
(***************************************************************************)
(* Model of the grid-trading core of uoaths/plot: Range, Trade, Position   *)
(* (both snapshots: the callback based src/position.rs and the Trader      *)
(* based src/trade/position.rs) and the collection driver.                 *)
(*                                                                         *)
(* Decimal values are fixed-point integers counting 1/Scale units;         *)
(* multiplication and division truncate toward zero at that resolution.    *)
(* A Trade's timestamp (wall clock) is left out: the tests' PartialEq      *)
(* ignores it and no operation reads it.                                   *)
(***************************************************************************)
EXTENDS Integers, Sequences, FiniteSets, TLC

VARIABLES positions, op, index, agent, price, quantity, before, result, calls, ticks,
          param, output, tasks, inflight

vars == <<positions, op, index, agent, price, quantity, before, result, calls, ticks,
          param, output, tasks, inflight>>

-----------------------------------------------------------------------------
(* Decimal arithmetic (rust_decimal::Decimal, src/lib.rs types)            *)

Scale == 100

ZERO == 0

ONE == Scale

\* Decimal::MAX, the sentinel of min_selling_price and Evaluate::default
PriceMAX == 1000000

Dec(n) == n * Scale

TruncDiv(a, b) ==
    IF b = 0 THEN 0
    ELSE LET q == (IF a < 0 THEN -a ELSE a) \div (IF b < 0 THEN -b ELSE b)
         IN IF (a < 0) = (b < 0) THEN q ELSE -q

DecMul(a, b) == TruncDiv(a * b, Scale)

DecDiv(a, b) == TruncDiv(a * Scale, b)

-----------------------------------------------------------------------------
(* Range<Decimal>: a pair <<a, b>> stored in either order                  *)

Range_min_first(r) == r[1]

Range_min(r) == IF r[1] < r[2] THEN r[1] ELSE r[2]

Range_max(r) == IF r[1] < r[2] THEN r[2] ELSE r[1]

is_within(r, value) == Range_min(r) < value /\ value < Range_max(r)

-----------------------------------------------------------------------------
(* Trade                                                                   *)

Trade_new(side, p, base_quantity, quote_quantity) ==
    [side |-> side, price |-> p, base_quantity |-> base_quantity,
     quote_quantity |-> quote_quantity]

with_buy_side(p, base_quantity, quote_quantity) ==
    Trade_new("Buy", p, base_quantity, quote_quantity)

with_sell_side(p, base_quantity, quote_quantity) ==
    Trade_new("Sell", p, base_quantity, quote_quantity)

RECURSIVE profit(_)
\* Trade::profit: the signed <<base, quote>> delta of a trade list
profit(value) ==
    IF value = <<>> THEN <<ZERO, ZERO>>
    ELSE LET rest == profit(Tail(value))
             trade == Head(value)
         IN IF trade.side = "Buy"
            THEN <<rest[1] + trade.base_quantity, rest[2] - trade.quote_quantity>>
            ELSE <<rest[1] - trade.base_quantity, rest[2] + trade.quote_quantity>>

-----------------------------------------------------------------------------
(* Position queries                                                        *)

is_short(self) == self.base_quantity = ZERO

RECURSIVE MaxOfBands(_, _)
MaxOfBands(ranges, acc) ==
    IF ranges = <<>> THEN acc
    ELSE MaxOfBands(Tail(ranges),
                    IF Range_max(Head(ranges)) > acc THEN Range_max(Head(ranges)) ELSE acc)

RECURSIVE MinOfBands(_, _)
MinOfBands(ranges, acc) ==
    IF ranges = <<>> THEN acc
    ELSE MinOfBands(Tail(ranges),
                    IF Range_min(Head(ranges)) < acc THEN Range_min(Head(ranges)) ELSE acc)

\* max_buying_price reading every band as stored lower end first
max_buying_price_as_stored(self) ==
    IF self.buying_prices = <<>> THEN ZERO
    ELSE LET top(k) == self.buying_prices[k][2]
         IN top(CHOOSE k \in 1..Len(self.buying_prices) :
                  \A j \in 1..Len(self.buying_prices) : top(j) <= top(k))

max_buying_price(self) == MaxOfBands(self.buying_prices, ZERO)

min_selling_price(self) == MinOfBands(self.selling_prices, PriceMAX)

is_within_buying_price(self, value) ==
    \E i \in 1..Len(self.buying_prices) : is_within(self.buying_prices[i], value)

is_within_selling_price(self, value) ==
    \E i \in 1..Len(self.selling_prices) : is_within(self.selling_prices[i], value)

-----------------------------------------------------------------------------
(* Results: Result<Vec<Trade>, Box<dyn Error>> and Option<Vec<Trade>>      *)

Ok(trades) == [ok |-> TRUE, trades |-> trades]

Err == [ok |-> FALSE, trades |-> <<>>]

\* One call issued to the Trader (or to a buy/sell callback)
Call(side, p, q) == [side |-> side, price |-> p, quantity |-> q]

RECURSIVE SumBase(_)
SumBase(trades) ==
    IF trades = <<>> THEN ZERO ELSE Head(trades).base_quantity + SumBase(Tail(trades))

RECURSIVE SumQuote(_)
SumQuote(trades) ==
    IF trades = <<>> THEN ZERO ELSE Head(trades).quote_quantity + SumQuote(Tail(trades))

-----------------------------------------------------------------------------
(* The Trader capability.  An agent is a record                            *)
(*   [kind, commission, failAt, split]:                                    *)
(* its n-th call of the operation fails when n = failAt (a venue           *)
(* rejection); otherwise it answers as the tests' TradeAgent does, in one  *)
(* fill or, when split, in two fills that together cover the request.      *)

TradeAgent_buy(commission, p, quote_quantity) ==
    IF p > ZERO
    THEN Ok(<<with_buy_side(p, DecMul(DecDiv(quote_quantity, p), ONE - commission),
                            quote_quantity)>>)
    ELSE Err

TradeAgent_sell(commission, p, base_quantity) ==
    IF p > ZERO
    THEN Ok(<<with_sell_side(p, base_quantity,
                             DecMul(DecMul(base_quantity, p), ONE - commission))>>)
    ELSE Err

Trader_buy(ag, p, quote_quantity, n) ==
    IF n = ag.failAt THEN Err
    ELSE IF ag.split
         THEN LET half == TruncDiv(quote_quantity, 2)
                  a == TradeAgent_buy(ag.commission, p, half)
                  b == TradeAgent_buy(ag.commission, p, quote_quantity - half)
              IN IF a.ok /\ b.ok THEN Ok(a.trades \o b.trades) ELSE Err
         ELSE TradeAgent_buy(ag.commission, p, quote_quantity)

Trader_sell(ag, p, base_quantity, n) ==
    IF n = ag.failAt THEN Err
    ELSE IF ag.split
         THEN LET half == TruncDiv(base_quantity, 2)
                  a == TradeAgent_sell(ag.commission, p, half)
                  b == TradeAgent_sell(ag.commission, p, base_quantity - half)
              IN IF a.ok /\ b.ok THEN Ok(a.trades \o b.trades) ELSE Err
         ELSE TradeAgent_sell(ag.commission, p, base_quantity)

-----------------------------------------------------------------------------
(* Executor for Position (src/trade/position.rs).  A frame is the state of *)
(* one trap call: the position, the trades vector, whether `?` has         *)
(* returned an error, and the log of Trader calls issued so far.           *)

Frame(self, ag, p, log) ==
    [position |-> self, agent |-> ag, price |-> p, ok |-> TRUE, trades |-> <<>>,
     calls |-> log]

\* a sell leg that gives the base away without crediting the proceeds
SellLegDropsProceeds(f) ==
    IF ~f.ok THEN f
    ELSE IF is_within_selling_price(f.position, f.price) /\ f.position.base_quantity # ZERO
    THEN LET log == Append(f.calls, Call("Sell", f.price, f.position.base_quantity))
             r == Trader_sell(f.agent, f.price, f.position.base_quantity, Len(log))
             trades == f.trades \o r.trades
         IN IF ~r.ok
            THEN [f EXCEPT !.ok = FALSE, !.trades = <<>>, !.calls = log]
            ELSE [f EXCEPT !.calls = log,
                           !.position.base_quantity = @ - SumBase(trades)]
    ELSE f

\* a sell leg that does not look at base_quantity
SellLegWhateverHeld(f) ==
    IF ~f.ok THEN f
    ELSE IF is_within_selling_price(f.position, f.price)
    THEN LET log == Append(f.calls, Call("Sell", f.price, f.position.base_quantity))
             r == Trader_sell(f.agent, f.price, f.position.base_quantity, Len(log))
             trades == f.trades \o r.trades
         IN IF ~r.ok
            THEN [f EXCEPT !.ok = FALSE, !.trades = <<>>, !.calls = log]
            ELSE [f EXCEPT !.trades = trades, !.calls = log,
                           !.position.base_quantity = @ - SumBase(trades),
                           !.position.quote_quantity = @ + SumQuote(trades)]
    ELSE f

\* if self.is_within_selling_price(price) && !self.base_quantity.is_zero() { .. }
SellLeg(f) ==
    IF ~f.ok THEN f
    ELSE IF is_within_selling_price(f.position, f.price) /\ f.position.base_quantity # ZERO
    THEN LET log == Append(f.calls, Call("Sell", f.price, f.position.base_quantity))
             r == Trader_sell(f.agent, f.price, f.position.base_quantity, Len(log))
             trades == f.trades \o r.trades
         IN IF ~r.ok
            THEN [f EXCEPT !.ok = FALSE, !.trades = <<>>, !.calls = log]
            ELSE [f EXCEPT !.trades = trades, !.calls = log,
                           !.position.base_quantity = @ - SumBase(trades),
                           !.position.quote_quantity = @ + SumQuote(trades)]
    ELSE f

\* if self.is_within_buying_price(price) && !self.quote_quantity.is_zero() { .. }
\* the loop that applies the fills runs over the whole trades vector
BuyLeg(f) ==
    IF ~f.ok THEN f
    ELSE IF is_within_buying_price(f.position, f.price) /\ f.position.quote_quantity # ZERO
    THEN LET log == Append(f.calls, Call("Buy", f.price, f.position.quote_quantity))
             r == Trader_buy(f.agent, f.price, f.position.quote_quantity, Len(log))
             trades == f.trades \o r.trades
         IN IF ~r.ok
            THEN [f EXCEPT !.ok = FALSE, !.trades = <<>>, !.calls = log]
            ELSE [f EXCEPT !.trades = trades, !.calls = log,
                           !.position.base_quantity = @ + SumBase(trades),
                           !.position.quote_quantity = @ - SumQuote(trades)]
    ELSE f

\* a trap that undoes the sell leg when the buy call fails
Position_trap_rollback(self, ag, p, log) ==
    LET f == BuyLeg(SellLeg(Frame(self, ag, p, log)))
    IN IF f.ok THEN f ELSE [f EXCEPT !.position = self]

Position_trap(self, ag, p, log) == BuyLeg(SellLeg(Frame(self, ag, p, log)))

RECURSIVE TrapPrices(_, _, _, _, _)
\* for price in prices.iter() { trades.extend(self.trap(agent, &price).await?); }
TrapPrices(self, ag, prices, trades, log) ==
    IF prices = <<>>
    THEN [position |-> self, ok |-> TRUE, trades |-> trades, calls |-> log]
    ELSE LET f == Position_trap(self, ag, Head(prices), log)
         IN IF ~f.ok
            THEN [position |-> f.position, ok |-> FALSE, trades |-> <<>>, calls |-> f.calls]
            ELSE TrapPrices(f.position, ag, Tail(prices), trades \o f.trades, f.calls)

RECURSIVE TrapPricesKeepGoing(_, _, _, _, _, _)
TrapPricesKeepGoing(self, ag, prices, trades, log, ok) ==
    IF prices = <<>>
    THEN [position |-> self, ok |-> ok, trades |-> IF ok THEN trades ELSE <<>>,
          calls |-> log]
    ELSE LET f == Position_trap(self, ag, Head(prices), log)
         IN TrapPricesKeepGoing(f.position, ag, Tail(prices), trades \o f.trades, f.calls,
                                ok /\ f.ok)

\* a round trip that goes on to the later legs after a leg has failed
trade_min_profit_trades_keep_going(self, ag) ==
    TrapPricesKeepGoing(self, ag,
                        <<min_selling_price(self), max_buying_price(self),
                          min_selling_price(self)>>,
                        <<>>, <<>>, TRUE)

\* Position::min_profit_trades of src/trade/position.rs (&mut self, Trader)
trade_min_profit_trades(self, ag) ==
    TrapPrices(self, ag,
               <<min_selling_price(self), max_buying_price(self), min_selling_price(self)>>,
               <<>>, <<>>)

RECURSIVE Vec_trap_from(_, _, _, _, _, _)
\* for position in self.iter_mut() { trades.extend(position.trap(agent, price).await?); }
Vec_trap_from(ps, i, ag, p, trades, log) ==
    IF i > Len(ps)
    THEN [positions |-> ps, ok |-> TRUE, trades |-> trades, calls |-> log]
    ELSE LET f == Position_trap(ps[i], ag, p, log)
             qs == [ps EXCEPT ![i] = f.position]
         IN IF ~f.ok
            THEN [positions |-> qs, ok |-> FALSE, trades |-> <<>>, calls |-> f.calls]
            ELSE Vec_trap_from(qs, i + 1, ag, p, trades \o f.trades, f.calls)

RECURSIVE VecTrapKeepGoing(_, _, _, _, _, _, _)
VecTrapKeepGoing(ps, i, ag, p, trades, log, ok) ==
    IF i > Len(ps)
    THEN [positions |-> ps, ok |-> ok, trades |-> IF ok THEN trades ELSE <<>>,
          calls |-> log]
    ELSE LET f == Position_trap(ps[i], ag, p, log)
         IN VecTrapKeepGoing([ps EXCEPT ![i] = f.position], i + 1, ag, p,
                             trades \o f.trades, f.calls, ok /\ f.ok)

\* a collection trap that goes on to the later positions after one has failed
Vec_trap_keep_going(ps, ag, p) == VecTrapKeepGoing(ps, 1, ag, p, <<>>, <<>>, TRUE)

Vec_trap(ps, ag, p) == Vec_trap_from(ps, 1, ag, p, <<>>, <<>>)

-----------------------------------------------------------------------------
(* The callback snapshot (src/position.rs): buy and sell are closures      *)
(*   Fn(&Price, &Quantity) -> Option<Quantity>.                            *)
(* A closure pair is an agent record too: kind "TradeAgent" is the tests'  *)
(* closure, kind "accept" a closure that converts one to one at any price; *)
(* either returns None on its failAt-th invocation.                        *)

Some(v) == [ok |-> TRUE, value |-> v]

None == [ok |-> FALSE, value |-> ZERO]

test_buy(commission, p, q) ==
    IF p > ZERO THEN Some(DecMul(DecDiv(q, p), ONE - commission)) ELSE None

test_sell(commission, p, q) ==
    IF p > ZERO THEN Some(DecMul(DecMul(q, p), ONE - commission)) ELSE None

Callback_buy(ag, p, q, n) ==
    IF n = ag.failAt THEN None
    ELSE IF ag.kind = "accept" THEN Some(q)
    ELSE test_buy(ag.commission, p, q)

Callback_sell(ag, p, q, n) ==
    IF n = ag.failAt THEN None
    ELSE IF ag.kind = "accept" THEN Some(q)
    ELSE test_sell(ag.commission, p, q)

NoTrade == Trade_new("None", ZERO, ZERO, ZERO)

\* Trade::with_sell: Option<Trade>, with the log of callback invocations
with_sell(p, q, ag, log) ==
    IF p < ZERO \/ q < ZERO
    THEN [ok |-> FALSE, trade |-> NoTrade, calls |-> log]
    ELSE LET log1 == Append(log, Call("Sell", p, q))
             r == Callback_sell(ag, p, q, Len(log1))
         IN IF ~r.ok
            THEN [ok |-> FALSE, trade |-> NoTrade, calls |-> log1]
            ELSE [ok |-> TRUE, trade |-> with_sell_side(p, q, r.value), calls |-> log1]

\* Trade::with_buy
with_buy(p, q, ag, log) ==
    IF p < ZERO \/ q < ZERO
    THEN [ok |-> FALSE, trade |-> NoTrade, calls |-> log]
    ELSE LET log1 == Append(log, Call("Buy", p, q))
             r == Callback_buy(ag, p, q, Len(log1))
         IN IF ~r.ok
            THEN [ok |-> FALSE, trade |-> NoTrade, calls |-> log1]
            ELSE [ok |-> TRUE, trade |-> with_buy_side(p, r.value, q), calls |-> log1]

\* min_profit_trades whose buy leg spends the position's quote only
min_profit_trades_forgets_proceeds(self, ag) ==
    LET buying_price == max_buying_price(self)
        selling_price == min_selling_price(self)
        fail(log) == [ok |-> FALSE, trades |-> <<>>, calls |-> log]
        legA == IF is_short(self)
                THEN [ok |-> TRUE, trades |-> <<>>, calls |-> <<>>]
                ELSE LET t == with_sell(selling_price, self.base_quantity, ag, <<>>)
                     IN [ok |-> t.ok, trades |-> <<t.trade>>, calls |-> t.calls]
    IN IF ~legA.ok THEN fail(legA.calls)
       ELSE LET legB == with_buy(buying_price, self.quote_quantity, ag, legA.calls)
            IN IF ~legB.ok THEN fail(legB.calls)
               ELSE LET legC == with_sell(selling_price, legB.trade.base_quantity, ag,
                                          legB.calls)
                    IN IF ~legC.ok THEN fail(legC.calls)
                       ELSE [ok |-> TRUE,
                             trades |-> legA.trades \o <<legB.trade, legC.trade>>,
                             calls |-> legC.calls]

\* Position::min_profit_trades of src/position.rs (&self, callbacks):
\* [ok, trades, calls]; ok = FALSE is None
min_profit_trades(self, ag) ==
    LET buying_price == max_buying_price(self)
        selling_price == min_selling_price(self)
        fail(log) == [ok |-> FALSE, trades |-> <<>>, calls |-> log]
        legA == IF is_short(self)
                THEN [ok |-> TRUE, trades |-> <<>>, calls |-> <<>>,
                      quote_quantity |-> self.quote_quantity]
                ELSE LET t == with_sell(selling_price, self.base_quantity, ag, <<>>)
                     IN [ok |-> t.ok, trades |-> <<t.trade>>, calls |-> t.calls,
                         quote_quantity |-> t.trade.quote_quantity + self.quote_quantity]
    IN IF ~legA.ok THEN fail(legA.calls)
       ELSE LET legB == with_buy(buying_price, legA.quote_quantity, ag, legA.calls)
            IN IF ~legB.ok THEN fail(legB.calls)
               ELSE LET legC == with_sell(selling_price, legB.trade.base_quantity, ag,
                                          legB.calls)
                    IN IF ~legC.ok THEN fail(legC.calls)
                       ELSE [ok |-> TRUE,
                             trades |-> legA.trades \o <<legB.trade, legC.trade>>,
                             calls |-> legC.calls]

-----------------------------------------------------------------------------
(* Inputs                                                                  *)

\* how many mutating operations one behaviour drives
MaxTicks == 3

\* how many ticks drive the Vec<Position>
MaxVecTicks == 1

\* length of the driven Vec<Position>
NumPositions == 2

\* the longest leg sequence: prices = vec![selling, buying, selling]
MaxLegs == 3

Prices == {150, Dec(2), Dec(6), 750, Dec(8)}

\* arguments handed to Trade::with_buy / Trade::with_sell
ArgPrices == {-Dec(1), ZERO, Dec(2)}

ArgQuantities == {-Dec(1), ZERO, Dec(5)}

Bands ==
    { [buying_prices |-> << <<Dec(3), Dec(8)>> >>, selling_prices |-> << <<Dec(7), Dec(8)>> >>],
      [buying_prices |-> << <<Dec(3), Dec(8)>> >>, selling_prices |-> << <<Dec(7), Dec(9)>> >>],
      [buying_prices |-> << <<Dec(1), Dec(2)>> >>, selling_prices |-> << <<Dec(5), Dec(8)>> >>],
      [buying_prices |-> << <<Dec(3), Dec(8)>>, <<Dec(9), Dec(10)>> >>,
       selling_prices |-> << <<Dec(21), Dec(25)>>, <<2050, Dec(20)>> >>],
      [buying_prices |-> <<>>, selling_prices |-> <<>>] }

PositionSet ==
    { [buying_prices |-> b.buying_prices, selling_prices |-> b.selling_prices,
       base_quantity |-> bq, quote_quantity |-> qq] :
        b \in Bands, bq \in {ZERO, Dec(5)}, qq \in {ZERO, Dec(20)} }

\* the positions of the driven collection: funded, with overlapping or
\* disjoint bands
VecPositionSet ==
    { self \in PositionSet :
        /\ self.buying_prices \in { << <<Dec(3), Dec(8)>> >>, << <<Dec(1), Dec(2)>> >> }
        /\ self.selling_prices \in { << <<Dec(7), Dec(8)>> >>, << <<Dec(5), Dec(8)>> >> }
        /\ self.base_quantity + self.quote_quantity > ZERO }

Agent(kind, commission, failAt, split) ==
    [kind |-> kind, commission |-> commission, failAt |-> failAt, split |-> split]

\* Traders: the tests' TradeAgent without commission, failing never or at
\* its 1st, 2nd or 3rd call, and one with a 10% commission that fills in two parts
Traders ==
    { Agent("TradeAgent", ZERO, n, FALSE) : n \in 0..MaxLegs }
        \cup { Agent("TradeAgent", 10, 0, TRUE), Agent("TradeAgent", 10, 2, TRUE) }

\* buy/sell closures: the tests' closures and one that accepts any price
Callbacks ==
    { Agent("TradeAgent", ZERO, n, FALSE) : n \in 0..MaxLegs }
        \cup { Agent("TradeAgent", 10, 0, FALSE), Agent("accept", ZERO, 0, FALSE) }

NoAgent == [kind |-> "none", commission |-> ZERO, failAt |-> 0, split |-> FALSE]

-----------------------------------------------------------------------------
(* State machine.  positions is the live Vec<Position>; op, index, agent,  *)
(* price and quantity record the last operation and its arguments, before  *)
(* the positions as they were when it was called, result what it returned  *)
(* and calls the Trader (or callback) calls it issued, in order.  param    *)
(* and output are the argument and the value of the last pure computation  *)
(* (strategies, Range, Evaluate); tasks and inflight are the suspended     *)
(* trap futures and the Trader calls that have not resolved yet.           *)

NoParam == [kind |-> "none"]

NoOutput == [kind |-> "none"]

InitWith(ps) ==
    /\ positions = ps
    /\ op = "init"
    /\ index = 0
    /\ agent = NoAgent
    /\ price = ZERO
    /\ quantity = ZERO
    /\ before = ps
    /\ result = Ok(<<>>)
    /\ calls = <<>>
    /\ ticks = 0
    /\ param = NoParam
    /\ output = NoOutput
    /\ tasks = <<>>
    /\ inflight = {}

Init == \E self \in PositionSet : InitWith(<<self>>)

InitVec == \E ps \in [1..NumPositions -> VecPositionSet] : InitWith(ps)

\* position.trap(agent, price) on positions[i]
Trap ==
    /\ ticks < MaxTicks
    /\ \E i \in 1..Len(positions), ag \in Traders, p \in Prices :
        LET f == Position_trap(positions[i], ag, p, <<>>)
        IN /\ positions' = [positions EXCEPT ![i] = f.position]
           /\ op' = "trap"
           /\ index' = i
           /\ agent' = ag
           /\ price' = p
           /\ result' = [ok |-> f.ok, trades |-> f.trades]
           /\ calls' = f.calls
    /\ quantity' = ZERO
    /\ before' = positions
    /\ ticks' = ticks + 1
    /\ UNCHANGED <<param, output, tasks, inflight>>

\* positions.trap(agent, price) on the whole Vec<Position>
VecTrap ==
    /\ ticks < MaxVecTicks
    /\ \E ag \in Traders, p \in Prices :
        LET r == Vec_trap(positions, ag, p)
        IN /\ positions' = r.positions
           /\ op' = "vec_trap"
           /\ agent' = ag
           /\ price' = p
           /\ result' = [ok |-> r.ok, trades |-> r.trades]
           /\ calls' = r.calls
    /\ index' = 0
    /\ quantity' = ZERO
    /\ before' = positions
    /\ ticks' = ticks + 1
    /\ UNCHANGED <<param, output, tasks, inflight>>

\* positions[i].min_profit_trades(agent) of src/trade/position.rs
TradeMinProfitTrades ==
    /\ ticks < MaxTicks
    /\ \E i \in 1..Len(positions), ag \in Traders :
        LET r == trade_min_profit_trades(positions[i], ag)
        IN /\ positions' = [positions EXCEPT ![i] = r.position]
           /\ op' = "trade_min_profit_trades"
           /\ index' = i
           /\ agent' = ag
           /\ result' = [ok |-> r.ok, trades |-> r.trades]
           /\ calls' = r.calls
    /\ price' = ZERO
    /\ quantity' = ZERO
    /\ before' = positions
    /\ ticks' = ticks + 1
    /\ UNCHANGED <<param, output, tasks, inflight>>

\* positions[i].min_profit_trades(buy, sell) of src/position.rs
MinProfitTrades ==
    /\ ticks < MaxTicks
    /\ \E i \in 1..Len(positions), ag \in Callbacks :
        LET r == min_profit_trades(positions[i], ag)
        IN /\ op' = "min_profit_trades"
           /\ index' = i
           /\ agent' = ag
           /\ result' = [ok |-> r.ok, trades |-> r.trades]
           /\ calls' = r.calls
    /\ price' = ZERO
    /\ quantity' = ZERO
    /\ before' = positions
    /\ ticks' = ticks + 1
    /\ UNCHANGED positions
    /\ UNCHANGED <<param, output, tasks, inflight>>

\* Trade::with_buy(price, quantity, buy)
WithBuy ==
    /\ \E p \in ArgPrices, q \in ArgQuantities, ag \in Callbacks :
        LET r == with_buy(p, q, ag, <<>>)
        IN /\ op' = "with_buy"
           /\ agent' = ag
           /\ price' = p
           /\ quantity' = q
           /\ result' = [ok |-> r.ok, trades |-> IF r.ok THEN <<r.trade>> ELSE <<>>]
           /\ calls' = r.calls
    /\ index' = 0
    /\ before' = positions
    /\ UNCHANGED <<positions, ticks>>
    /\ UNCHANGED <<param, output, tasks, inflight>>

\* Trade::with_sell(price, quantity, sell)
WithSell ==
    /\ \E p \in ArgPrices, q \in ArgQuantities, ag \in Callbacks :
        LET r == with_sell(p, q, ag, <<>>)
        IN /\ op' = "with_sell"
           /\ agent' = ag
           /\ price' = p
           /\ quantity' = q
           /\ result' = [ok |-> r.ok, trades |-> IF r.ok THEN <<r.trade>> ELSE <<>>]
           /\ calls' = r.calls
    /\ index' = 0
    /\ before' = positions
    /\ UNCHANGED <<positions, ticks>>
    /\ UNCHANGED <<param, output, tasks, inflight>>

Next == Trap \/ TradeMinProfitTrades \/ MinProfitTrades

Spec == Init /\ [][Next]_vars

NextTrade == WithBuy \/ WithSell

SpecTrade == Init /\ [][NextTrade]_vars

NextVec == VecTrap

SpecVec == InitVec /\ [][NextVec]_vars

-----------------------------------------------------------------------------
(* Vocabulary of the properties                                            *)

\* the position an operation was called on, as it was and as it is now
Pre == before[index]

Post == positions[index]

IsSide(trades, side) == \A k \in 1..Len(trades) : trades[k].side = side

SellsOf(trades) == SelectSeq(trades, LAMBDA t : t.side = "Sell")

BuysOf(trades) == SelectSeq(trades, LAMBDA t : t.side = "Buy")

\* containment with the band endpoints included
InBandInclusive(ranges, value) ==
    \E k \in 1..Len(ranges) : Range_min(ranges[k]) <= value /\ value <= Range_max(ranges[k])

NonNegative(self) == self.base_quantity >= ZERO /\ self.quote_quantity >= ZERO

\* the operation's Trader answers every call it gets
NeverFails == agent.failAt = 0

-----------------------------------------------------------------------------
(* C1: after a successful trap that returns T the position has moved by    *)
(* exactly Trade::profit(T): base by +Buy.base -Sell.base, quote by        *)
(* -Buy.quote +Sell.quote, also when both legs fire in the one call.       *)
C1_TrapAppliesEachTradeOnce ==
    (op = "trap" /\ result.ok) =>
        /\ Post.base_quantity = Pre.base_quantity + profit(result.trades)[1]
        /\ Post.quote_quantity = Pre.quote_quantity + profit(result.trades)[2]

(* C2: a trap at a positive price against a Trader that fills the whole    *)
(* request keeps base_quantity >= 0 and quote_quantity >= 0 (the step of   *)
(* the inventory invariant: from a non-negative position to a non-negative *)
(* position).                                                              *)
C2_InventoryNonNegative ==
    (op = "trap" /\ NeverFails /\ price > ZERO /\ NonNegative(Pre)) => NonNegative(Post)

\* the returned legs are Buy, Sell when short and Sell, Buy, Sell when holding
RoundTripLegs ==
    LET legs == [k \in 1..Len(result.trades) |->
                    <<result.trades[k].side, result.trades[k].price>>]
        buy == <<"Buy", max_buying_price(Pre)>>
        sell == <<"Sell", min_selling_price(Pre)>>
    IN /\ result.ok
       /\ legs = IF is_short(Pre) THEN <<buy, sell>> ELSE <<sell, buy, sell>>

(* C3: with a Trader that accepts every leg, min_profit_trades on a        *)
(* position with non-empty bands (and funds to trade) returns              *)
(* [Buy@max_buying, Sell@min_selling] when short and                       *)
(* [Sell@min_selling, Buy@max_buying, Sell@min_selling] when holding.      *)
C3_RoundTripLegs ==
    (/\ op \in {"trade_min_profit_trades", "min_profit_trades"}
     /\ NeverFails
     /\ Pre.base_quantity >= ZERO
     /\ Pre.quote_quantity > ZERO
     /\ Pre.buying_prices # <<>>
     /\ Pre.selling_prices # <<>>) => RoundTripLegs

\* the callback snapshot alone does return the 2 or 3 legs, for any funds
C3_CallbackRoundTripLegs ==
    (/\ op = "min_profit_trades"
     /\ NeverFails
     /\ NonNegative(Pre)
     /\ Pre.buying_prices # <<>>
     /\ Pre.selling_prices # <<>>) => RoundTripLegs

(* C4: min_profit_trades leaves base_quantity, quote_quantity and the      *)
(* bands of the position as they were, whether it succeeds or fails.       *)
C4_RoundTripDoesNotMutate ==
    op \in {"trade_min_profit_trades", "min_profit_trades"} => positions = before

(* C5: containment is inclusive at the band endpoints: a trap at the upper *)
(* endpoint of a buying band with quote_quantity > 0 issues the buy and    *)
(* returns a Buy trade at that price, and a trap at an endpoint of a       *)
(* selling band with base_quantity > 0 issues the sell.                    *)
C5_EndpointsTrigger ==
    (op = "trap" /\ NeverFails /\ NonNegative(Pre)) =>
        /\ (/\ \E k \in 1..Len(Pre.buying_prices) : price = Range_max(Pre.buying_prices[k])
            /\ Pre.quote_quantity > ZERO)
             => /\ \E k \in 1..Len(calls) : calls[k].side = "Buy"
                /\ \E k \in 1..Len(result.trades) :
                      result.trades[k].side = "Buy" /\ result.trades[k].price = price
        /\ (/\ \E k \in 1..Len(Pre.selling_prices) :
                  price \in {Pre.selling_prices[k][1], Pre.selling_prices[k][2]}
            /\ Pre.base_quantity > ZERO)
             => \E k \in 1..Len(calls) : calls[k].side = "Sell"

\* what a trap that fires both legs in the order sell, buy looks like
SellThenBuy ==
    /\ result.ok
    /\ Len(calls) = 2
    /\ calls[1] = Call("Sell", price, Pre.base_quantity)
    /\ calls[2] = Call("Buy", price,
                       Pre.quote_quantity + SumQuote(SellsOf(result.trades)))
    /\ result.trades = SellsOf(result.trades) \o BuysOf(result.trades)
    /\ SellsOf(result.trades) # <<>>
    /\ BuysOf(result.trades) # <<>>

(* C6: when the price lies in a selling band and in a buying band (the     *)
(* endpoints included, as in the example at price 80 of bands [30,80] and  *)
(* [70,80]) and the position is holding, the sell is issued and applied    *)
(* first, the buy is issued for the post-sell quote_quantity, and the      *)
(* result is the sell trades followed by the buy trades.                   *)
C6_SellBeforeBuy ==
    (/\ op = "trap"
     /\ NeverFails
     /\ NonNegative(Pre)
     /\ Pre.base_quantity > ZERO
     /\ InBandInclusive(Pre.selling_prices, price)
     /\ InBandInclusive(Pre.buying_prices, price)) => SellThenBuy

\* the ordering alone, at the prices the code takes to lie in both bands
C6_SellBeforeBuyInside ==
    (/\ op = "trap"
     /\ NeverFails
     /\ NonNegative(Pre)
     /\ Pre.base_quantity > ZERO
     /\ is_within_selling_price(Pre, price)
     /\ is_within_buying_price(Pre, price)) => SellThenBuy

(* C7: when the sell call of a trap fails, the error is returned, the      *)
(* position is unchanged and no buy call is issued; when the sell leg      *)
(* succeeds and the buy call fails, the error is returned and the position *)
(* keeps exactly the sell leg's mutation.                                  *)
C7_TrapFailureKeepsSellLeg ==
    op = "trap" =>
        /\ (calls # <<>> /\ calls[1].side = "Sell" /\ agent.failAt = 1)
             => (~result.ok /\ positions = before /\ Len(calls) = 1)
        /\ (Len(calls) >= 2 /\ agent.failAt = 2)
             => LET sold == Trader_sell(agent, price, Pre.base_quantity, 1).trades
                IN /\ ~result.ok
                   /\ Len(calls) = 2
                   /\ Post = [Pre EXCEPT !.base_quantity = @ - SumBase(sold),
                                         !.quote_quantity = @ + SumQuote(sold)]

C7_Witness ==
    /\ op = "trap"
    /\ agent.failAt = 2
    /\ Len(calls) = 2
    /\ ~result.ok
    /\ Post.base_quantity < Pre.base_quantity
    /\ Post.quote_quantity > Pre.quote_quantity

\* the k-th call of the last operation was refused by the Trader
Rejected(k) ==
    \/ k = agent.failAt
    \/ agent.kind = "TradeAgent" /\ calls[k].price <= ZERO

(* C8: min_profit_trades stops at the first failing leg: a refused call is *)
(* the last call issued (no later leg, no retry), the operation fails and  *)
(* returns none of the earlier legs' trades.                               *)
C8_RoundTripStopsAtFirstFailure ==
    op \in {"trade_min_profit_trades", "min_profit_trades"} =>
        \A k \in 1..Len(calls) :
            Rejected(k) => (k = Len(calls) /\ ~result.ok /\ result.trades = <<>>)

C8_Witness ==
    /\ op = "trade_min_profit_trades"
    /\ agent.failAt = 2
    /\ Len(calls) = 2
    /\ ~result.ok

\* the callback snapshot fails at its second leg
C8_CallbackWitness ==
    /\ op = "min_profit_trades"
    /\ agent.failAt = 2
    /\ Len(calls) = 2
    /\ ~result.ok

(* C9: Trade::with_buy and Trade::with_sell return no Trade whenever       *)
(* price <= 0 or quantity < 0, whatever the callback would return.         *)
C9_RejectsNonPositivePrice ==
    (op \in {"with_buy", "with_sell"} /\ (price <= ZERO \/ quantity < ZERO)) => ~result.ok

\* the guard as the code has it: price < 0 or quantity < 0
C9_RejectsNegative ==
    (op \in {"with_buy", "with_sell"} /\ (price < ZERO \/ quantity < ZERO))
        => (~result.ok /\ calls = <<>>)

-----------------------------------------------------------------------------
(* The collection                                                          *)

\* position i of the collection trapped on its own by a Trader that answers
Alone(i) == Position_trap(before[i], [agent EXCEPT !.failAt = 0], price, <<>>)

RECURSIVE TradesUpTo(_)
TradesUpTo(i) == IF i = 0 THEN <<>> ELSE TradesUpTo(i - 1) \o Alone(i).trades

RECURSIVE CallsUpTo(_)
CallsUpTo(i) == IF i = 0 THEN <<>> ELSE CallsUpTo(i - 1) \o Alone(i).calls

(* C10: the collection's trap takes the positions one at a time in list    *)
(* order and returns their trades concatenated in that order; at the first *)
(* failing call it returns the error, the positions before the failing one *)
(* keep their mutations and the positions after it are unchanged and get   *)
(* no Trader call.                                                         *)
C10_VecTrapInOrder ==
    op = "vec_trap" =>
        LET n == Len(before)
            all == CallsUpTo(n)
            k == agent.failAt
        IN IF k = 0 \/ Len(all) < k
           THEN /\ result.ok
                /\ result.trades = TradesUpTo(n)
                /\ calls = all
                /\ \A i \in 1..n : positions[i] = Alone(i).position
           ELSE LET j == CHOOSE j \in 1..n :
                            Len(CallsUpTo(j - 1)) < k /\ k <= Len(CallsUpTo(j))
                IN /\ ~result.ok
                   /\ calls = SubSeq(all, 1, k)
                   /\ \A i \in 1..n : i < j => positions[i] = Alone(i).position
                   /\ \A i \in 1..n : i > j => positions[i] = before[i]

C10_Witness ==
    /\ op = "vec_trap"
    /\ ~result.ok
    /\ positions[1] # before[1]
    /\ positions[Len(positions)] = before[Len(positions)]
    /\ Alone(Len(positions)).calls # <<>>

\* the legs feed one another: the buy spends the position's quote plus what
\* the opening sell brought in, the closing sell sells what the buy bought
LegChaining ==
    LET T == result.trades
        n == Len(T)
        proceeds == IF is_short(Pre) THEN ZERO ELSE T[1].quote_quantity
    IN /\ n = (IF is_short(Pre) THEN 2 ELSE 3)
       /\ ~is_short(Pre) =>
            /\ T[1].side = "Sell"
            /\ T[1].base_quantity = Pre.base_quantity
            /\ calls[1] = Call("Sell", T[1].price, Pre.base_quantity)
       /\ T[n - 1].side = "Buy"
       /\ T[n - 1].quote_quantity = Pre.quote_quantity + proceeds
       /\ calls[n - 1] = Call("Buy", T[n - 1].price, Pre.quote_quantity + proceeds)
       /\ T[n].side = "Sell"
       /\ T[n].base_quantity = T[n - 1].base_quantity
       /\ calls[n] = Call("Sell", T[n].price, T[n - 1].base_quantity)
       /\ profit(T)[1] = -Pre.base_quantity
       /\ Pre.base_quantity + profit(T)[1] = ZERO

-----------------------------------------------------------------------------
(* Pure computations: the argument is drawn by the initial state into      *)
(* param, one action applies the function and leaves its value in output.  *)

InitPure(x) ==
    /\ positions = <<>>
    /\ op = "init"
    /\ index = 0
    /\ agent = NoAgent
    /\ price = ZERO
    /\ quantity = ZERO
    /\ before = <<>>
    /\ result = Ok(<<>>)
    /\ calls = <<>>
    /\ ticks = 0
    /\ param = x
    /\ output = NoOutput
    /\ tasks = <<>>
    /\ inflight = {}

\* what a pure action leaves alone
Untouched ==
    UNCHANGED <<positions, index, agent, price, quantity, before, result, calls, ticks,
                param, tasks, inflight>>

PositionOf(buying, selling, base, quote) ==
    [buying_prices |-> buying, selling_prices |-> selling,
     base_quantity |-> base, quote_quantity |-> quote]

-----------------------------------------------------------------------------
(* Grid (src/plot/grid.rs).  Its Decimals count 1/GridScale units, seven   *)
(* decimal places: the interval is truncated to six places and then halved *)
(* exactly, which needs a seventh.                                         *)

GridScale == 10000000

GDec(n) == n * GridScale

\* Decimal::trunc_with_scale(6) of a value with seven places, rounding up
trunc_with_scale_6_rounding(x) == ((x + 5) \div 10) * 10

\* Decimal::trunc_with_scale(6) of a value with seven places
trunc_with_scale_6(x) == TruncDiv(x, 10) * 10

Grid_new(investment, range, copies) ==
    [kind |-> "Grid", investment |-> investment, range |-> range, copies |-> copies]

Grid_trap(self) ==
    LET price_highest == Range_max(self.range)
        price_lowest == Range_min(self.range)
        interval == trunc_with_scale_6(TruncDiv(price_highest - price_lowest, self.copies + 1))
        interval_quote_quantity == trunc_with_scale_6(TruncDiv(self.investment, self.copies))
        half == TruncDiv(interval, 2)
    IN [n \in 1..self.copies |->
          LET i == n - 1
              buying == price_lowest + interval * i
              selling == price_lowest + interval * (i + 2)
          IN PositionOf(<< <<buying, buying + half>> >>,
                        << <<selling - half, price_highest>> >>,
                        ZERO, interval_quote_quantity)]

\* the largest number of copies drawn
MaxCopies == 3

GridPrices == {GDec(0), GDec(10), GDec(50), 555000000, GDec(100)}

GridInvestments == {GDec(1), GDec(30), GDec(100)}

Grids ==
    { Grid_new(inv, <<a, b>>, n) :
        inv \in GridInvestments, a \in GridPrices, b \in GridPrices, n \in 1..MaxCopies }

InitGrid == \E g \in Grids : InitPure(g)

\* grid.trap()
GridTrap ==
    /\ op = "init"
    /\ param.kind = "Grid"
    /\ op' = "grid_trap"
    /\ output' = [kind |-> "positions", positions |-> Grid_trap(param)]
    /\ Untouched

NextGrid == GridTrap

SpecGrid == InitGrid /\ [][NextGrid]_vars

\* the largest multiple of 1/unit below or at num/den, for num >= 0
TruncatedQuotient(num, den, unit) ==
    LET q == num \div den IN q - (q % unit)

\* C12: a Grid with investment > 0, range [lo, hi] and copies N >= 1 yields
\* exactly N positions; with interval = (hi - lo)/(N + 1) and slice =
\* investment/N, both truncated (never rounded) to six places, position i
\* (from 0) buys in [lo + i*interval, lo + i*interval + interval/2], sells
\* in [lo + (i + 2)*interval - interval/2, hi], holds no base and slice quote
C12_GridLayout ==
    (op = "grid_trap") =>
        LET lo == IF param.range[1] <= param.range[2] THEN param.range[1] ELSE param.range[2]
            hi == IF param.range[1] <= param.range[2] THEN param.range[2] ELSE param.range[1]
            N == param.copies
            interval == TruncatedQuotient(hi - lo, N + 1, 10)
            slice == TruncatedQuotient(param.investment, N, 10)
            ps == output.positions
        IN /\ Len(ps) = N
           /\ \A n \in 1..N :
                /\ ps[n].buying_prices =
                     << <<lo + (n - 1) * interval, lo + (n - 1) * interval + interval \div 2>> >>
                /\ 2 * (ps[n].buying_prices[1][2] - ps[n].buying_prices[1][1]) = interval
                /\ ps[n].selling_prices =
                     << <<lo + (n + 1) * interval - interval \div 2, hi>> >>
                /\ ps[n].base_quantity = ZERO
                /\ ps[n].quote_quantity = slice

\* the second case of test_trap: 30 over [50, 100] in 2 copies
C12_Witness ==
    /\ op = "grid_trap"
    /\ param = Grid_new(GDec(30), <<GDec(50), GDec(100)>>, 2)
    /\ output.positions =
         << PositionOf(<< <<GDec(50), 583333330>> >>, << <<749999990, GDec(100)>> >>,
                       ZERO, GDec(15)),
            PositionOf(<< <<666666660, 749999990>> >>, << <<916666650, GDec(100)>> >>,
                       ZERO, GDec(15)) >>

-----------------------------------------------------------------------------
(* GridPercent (src/strategy/grid_percent.rs).  The ladder is kept at the  *)
(* model's resolution 1/Scale, which stands for the twelve places of the   *)
(* code: a product of two Decimals carries twice the places and            *)
(* trunc_with_scale cuts it back, toward zero.                             *)

GridPercent_new(investment, range, percent, percent_lost) ==
    [kind |-> "GridPercent", investment |-> investment, range |-> range,
     percent |-> percent, percent_lost |-> percent_lost]

\* Decimal::trunc_with_scale(12) of an exact product (1/(Scale*Scale) units)
trunc_with_scale_12(exact) == TruncDiv(exact, Scale)

\* the most rungs a ladder is followed for
MaxRungs == 32

RECURSIVE LadderWithTerminator(_, _, _)
LadderWithTerminator(prices, percentage_increase, termination_price) ==
    LET new_price == trunc_with_scale_12(prices[Len(prices)] * percentage_increase)
    IN IF new_price >= termination_price
       THEN [prices |-> Append(prices, new_price), finished |-> TRUE]
       ELSE IF Len(prices) >= MaxRungs
            THEN [prices |-> prices, finished |-> FALSE]
            ELSE LadderWithTerminator(Append(prices, new_price), percentage_increase,
                                      termination_price)

\* the loop of lines 36-43; finished is FALSE when it is still running
\* after MaxRungs rungs
RECURSIVE Ladder(_, _, _)
Ladder(prices, percentage_increase, termination_price) ==
    LET new_price == trunc_with_scale_12(prices[Len(prices)] * percentage_increase)
    IN IF new_price >= termination_price
       THEN [prices |-> prices, finished |-> TRUE]
       ELSE IF Len(prices) >= MaxRungs
            THEN [prices |-> prices, finished |-> FALSE]
            ELSE Ladder(Append(prices, new_price), percentage_increase, termination_price)

price_ladder_with_terminator(self) ==
    LadderWithTerminator(<<Range_min(self.range)>>, ONE + self.percent, Range_max(self.range))

price_ladder(self) ==
    Ladder(<<Range_min(self.range)>>, ONE + self.percent, Range_max(self.range))

\* prices.get(k), k counted from 0
Get(prices, k) == IF k < Len(prices) THEN Some(prices[k + 1]) ELSE None

WindowIndexNoCarry(i, num) == num

\* let index = i + num
WindowIndex(i, num) == i + num

HasLookaheadAlways(prices, at) == TRUE

\* if let None = prices.get(index + 3) { return positions; }
HasLookahead(prices, at) == Get(prices, at + 3) # None

selling_prices_always_stop_loss(sell_0, termination_price, percentage_lost) ==
    << <<sell_0, termination_price>>, <<ZERO, DecMul(sell_0, percentage_lost)>> >>

selling_prices_of(sell_0, termination_price, percentage_lost) ==
    IF ZERO < percentage_lost /\ percentage_lost < ONE
    THEN << <<sell_0, termination_price>>, <<ZERO, DecMul(sell_0, percentage_lost)>> >>
    ELSE << <<sell_0, termination_price>> >>

\* the for loop of lines 47-87
RECURSIVE AssignFrom(_, _, _, _, _)
AssignFrom(self, prices, i, num, acc) ==
    IF i >= Len(prices) THEN acc
    ELSE LET at == WindowIndex(i, num)
             buy_0 == Get(prices, at)
             buy_1 == Get(prices, at + 1)
             sell_0 == Get(prices, at + 2)
         IN IF buy_0 = None \/ buy_1 = None \/ sell_0 = None \/ ~HasLookahead(prices, at)
            THEN acc
            ELSE AssignFrom(self, prices, i + 1, num + 3,
                     Append(acc,
                         PositionOf(<< <<buy_0.value, buy_1.value>> >>,
                                    selling_prices_of(sell_0.value, Range_max(self.range),
                                                      ONE - self.percent_lost),
                                    ZERO, self.investment)))

assign_position(self) == AssignFrom(self, price_ladder(self).prices, 0, 0, <<>>)

\* range endpoints drawn: zero, the smallest positive Decimal, test values
PercentPrices == {ZERO, 1, Dec(50), Dec(60), Dec(100), Dec(200)}

\* 5%, 10%, 50%, 100%
Percents == {5, 10, 50, ONE}

\* none, 10%, 100%, 150%, -10%
PercentsLost == {ZERO, 10, ONE, 150, -10}

GridPercents ==
    { GridPercent_new(inv, <<a, b>>, pc, lost) :
        inv \in {Dec(50), Dec(100)}, a \in PercentPrices, b \in PercentPrices,
        pc \in Percents, lost \in PercentsLost }

InitGridPercent == \E g \in GridPercents : InitPure(g)

\* strategy.assign_position(); it returns once the ladder's loop has ended
AssignPosition ==
    /\ op = "init"
    /\ param.kind = "GridPercent"
    /\ price_ladder(param).finished
    /\ op' = "assign_position"
    /\ output' = [kind |-> "positions", positions |-> assign_position(param),
                  prices |-> price_ladder(param).prices]
    /\ Untouched

NextGridPercent == AssignPosition

SpecGridPercent == InitGridPercent /\ [][NextGridPercent]_vars

\* the range's ends, whichever way round it was given
Lo == IF param.range[1] <= param.range[2] THEN param.range[1] ELSE param.range[2]

Hi == IF param.range[1] <= param.range[2] THEN param.range[2] ELSE param.range[1]

\* previous rung times (1 + percent), cut to the ladder's resolution
NextRung(rung) == (rung * (ONE + param.percent)) \div Scale

LadderSteps ==
    LET prices == output.prices
    IN /\ prices[1] = Lo
       /\ \A k \in 2..Len(prices) : prices[k] = NextRung(prices[k - 1])
       /\ NextRung(prices[Len(prices)]) >= Hi
       /\ (Lo > ZERO /\ ZERO < param.percent /\ param.percent < ONE) =>
            \A k \in 2..Len(prices) : prices[k - 1] < prices[k]

\* C13 as stated: the ladder starts with lo, every later rung is the
\* previous rung times (1 + percent) truncated, every rung of the ladder is
\* strictly below hi and the first value >= hi is left out
C13_LadderBelowHi ==
    (op = "assign_position") =>
        /\ LadderSteps
        /\ \A k \in 1..Len(output.prices) : output.prices[k] < Hi

\* C13: the ladder starts with lo, every later rung is the previous rung
\* times (1 + percent) truncated, every rung after the first is strictly
\* below hi (the first, lo, equals hi when the range is a single price) and
\* the first value >= hi is left out
C13_Ladder ==
    (op = "assign_position") =>
        /\ LadderSteps
        /\ \A k \in 2..Len(output.prices) : output.prices[k] < Hi
        /\ output.prices[1] <= Hi
        /\ (Lo < Hi) => output.prices[1] < Hi

\* a ladder of several rungs one of which was cut by the truncation
C13_Witness ==
    /\ op = "assign_position"
    /\ Len(output.prices) >= 3
    /\ \E k \in 2..Len(output.prices) :
         (output.prices[k - 1] * (ONE + param.percent)) % Scale # 0

\* position j (from 1) is built from the three rungs that start at rung
\* start(j) (from 1) and is there only if a fourth rung follows them
WindowsAt(start(_)) ==
    LET prices == output.prices
        ps == output.positions
    IN \A j \in 1..Len(ps) :
         /\ start(j) + 3 <= Len(prices)
         /\ ps[j].buying_prices = << <<prices[start(j)], prices[start(j) + 1]>> >>
         /\ ps[j].selling_prices[1][1] = prices[start(j) + 2]

\* C14 as stated: the window start advances by 3 rungs per position:
\* position j (from 0) buys in [prices[3j], prices[3j+1]], sells from
\* prices[3j+2] and is emitted only if prices[3j+3] exists
C14_WindowAdvancesByThree ==
    (op = "assign_position") => WindowsAt(LAMBDA j : 3 * (j - 1) + 1)

\* C14: the window start advances by 4 rungs per position: position j
\* (from 0) buys in [prices[4j], prices[4j+1]], sells from prices[4j+2] and
\* is emitted only if prices[4j+3] exists; the lookahead rung is skipped
C14_WindowAdvancesByFour ==
    (op = "assign_position") => WindowsAt(LAMBDA j : 4 * (j - 1) + 1)

\* at least two positions, so that the stride shows
C14_Witness ==
    /\ op = "assign_position"
    /\ Len(output.positions) >= 2
    /\ output.positions[2].buying_prices[1][1] = output.prices[5]

\* C15: a position is emitted only while at least 4 rungs remain from its
\* window start, and emitting stops as soon as fewer remain; a ladder of
\* fewer than 4 rungs (a range of one price included) gives the empty list
C15_NeedsFourRungs ==
    (op = "assign_position") =>
        LET prices == output.prices
            ps == output.positions
        IN /\ \A j \in 1..Len(ps) :
                \E k \in 1..Len(prices) :
                    /\ prices[k] = ps[j].buying_prices[1][1]
                    /\ Len(prices) - k + 1 >= 4
           /\ Len(prices) - 4 * Len(ps) < 4
           /\ (Len(prices) < 4) => ps = <<>>
           /\ (Lo = Hi) => ps = <<>>

\* a ladder that ends three rungs after the last window, and one too short
\* for any window
C15_Witness ==
    /\ op = "assign_position"
    /\ Len(output.positions) >= 1
    /\ Len(output.prices) - 4 * Len(output.positions) = 3

C15_WitnessEmpty ==
    /\ op = "assign_position"
    /\ Len(output.prices) = 3
    /\ output.positions = <<>>

\* C16: every emitted position holds no base and the whole investment as
\* quote, buys in [[p0, p1]] and sells in [[p2, hi]], followed by the
\* stop-loss band [0, p2*(1 - percent_lost)] exactly when
\* 0 < percent_lost < 1
C16_PositionShape ==
    (op = "assign_position") =>
        \A j \in 1..Len(output.positions) :
            LET self == output.positions[j]
                p2 == self.selling_prices[1][1]
            IN /\ self.base_quantity = ZERO
               /\ self.quote_quantity = param.investment
               /\ Len(self.buying_prices) = 1
               /\ self.buying_prices[1][2] = NextRung(self.buying_prices[1][1])
               /\ p2 = NextRung(self.buying_prices[1][2])
               /\ self.selling_prices[1] = <<p2, Hi>>
               /\ IF ZERO < param.percent_lost /\ param.percent_lost < ONE
                  THEN /\ Len(self.selling_prices) = 2
                       /\ self.selling_prices[2] =
                            <<ZERO, (p2 * (ONE - param.percent_lost)) \div Scale>>
                  ELSE Len(self.selling_prices) = 1

\* positions with a stop-loss band
C16_Witness ==
    /\ op = "assign_position"
    /\ param.percent_lost = 10
    /\ Len(output.positions) >= 2
    /\ Len(output.positions[2].selling_prices) = 2

\* positions without one although a percent_lost was given
C16_WitnessNoStopLoss ==
    /\ op = "assign_position"
    /\ param.percent_lost >= ONE
    /\ Len(output.positions) >= 1
    /\ Len(output.positions[1].selling_prices) = 1

-----------------------------------------------------------------------------
(* Range and is_within_ranges (src/math.rs)                                *)

is_within_ranges(value, ranges) ==
    IF ranges = <<>> THEN FALSE
    ELSE \E i \in 1..Len(ranges) : is_within(ranges[i], value)

\* endpoints and values drawn: negative, zero, adjacent and equal ones
RangeValues == {-Dec(1), ZERO, 1, 2, Dec(1), Dec(2)}

\* a second band next to the drawn one, or none
OtherBands == { <<>>, << <<Dec(1), ZERO>> >> }

RangeInputs ==
    { [kind |-> "Range", range |-> <<a, b>>, value |-> v, others |-> o] :
        a \in RangeValues, b \in RangeValues, v \in RangeValues, o \in OtherBands }

InitRange == \E x \in RangeInputs : InitPure(x)

\* range.min()
RangeMin ==
    /\ op = "init"
    /\ param.kind = "Range"
    /\ op' = "range_min"
    /\ output' = [kind |-> "decimal", value |-> Range_min(param.range)]
    /\ Untouched

\* range.max()
RangeMax ==
    /\ op = "init"
    /\ param.kind = "Range"
    /\ op' = "range_max"
    /\ output' = [kind |-> "decimal", value |-> Range_max(param.range)]
    /\ Untouched

\* range.is_within(&value)
IsWithin ==
    /\ op = "init"
    /\ param.kind = "Range"
    /\ op' = "is_within"
    /\ output' = [kind |-> "bool", value |-> is_within(param.range, param.value)]
    /\ Untouched

\* is_within_ranges(&value, &vec![range, others..])
IsWithinRanges ==
    /\ op = "init"
    /\ param.kind = "Range"
    /\ op' = "is_within_ranges"
    /\ output' = [kind |-> "bool",
                  value |-> is_within_ranges(param.value, <<param.range>> \o param.others)]
    /\ Untouched

NextRange == RangeMin \/ RangeMax \/ IsWithin \/ IsWithinRanges

SpecRange == InitRange /\ [][NextRange]_vars

Swapped(r) == <<r[2], r[1]>>

\* C17: for every Range(a, b), min() <= max(), {min(), max()} = {a, b}, and
\* Range(b, a) gives the same min(), max() and containment for every value,
\* alone or in a list of bands; with a = b nothing is contained
C17_RangeOrderFree ==
    LET a == param.range[1]
        b == param.range[2]
        v == param.value
    IN /\ (op = "range_min") =>
            /\ output.value <= Range_max(param.range)
            /\ {output.value, Range_max(param.range)} = {a, b}
            /\ output.value <= a /\ output.value <= b
            /\ Range_min(Swapped(param.range)) = output.value
       /\ (op = "range_max") =>
            /\ Range_min(param.range) <= output.value
            /\ {Range_min(param.range), output.value} = {a, b}
            /\ output.value >= a /\ output.value >= b
            /\ Range_max(Swapped(param.range)) = output.value
       /\ (op = "is_within") =>
            /\ is_within(Swapped(param.range), v) = output.value
            /\ output.value = ((a < v /\ v < b) \/ (b < v /\ v < a))
            /\ (a = b) => ~output.value
       /\ (op = "is_within_ranges") =>
            /\ is_within_ranges(v, <<Swapped(param.range)>> \o param.others) = output.value
            /\ is_within_ranges(v, param.others \o <<param.range>>) = output.value

\* a band stored upper end first that contains the value
C17_Witness ==
    /\ op = "is_within"
    /\ param.range[1] > param.range[2]
    /\ output.value

\* a single-price band asked about its own price
C17_WitnessDegenerate ==
    /\ op = "is_within"
    /\ param.range[1] = param.range[2]
    /\ param.value = param.range[1]
    /\ ~output.value

-----------------------------------------------------------------------------
(* Evaluate (src/trade/evaluate.rs)                                        *)

\* Trade::costs, which evaluate calls and the source does not hold: the
\* quote value of the gap between the fill and an ideal conversion at price
costs(trade) ==
    IF trade.side = "Buy"
    THEN DecMul(DecDiv(trade.quote_quantity, trade.price) - trade.base_quantity, trade.price)
    ELSE DecMul(trade.base_quantity, trade.price) - trade.quote_quantity

Evaluate_default ==
    [volume_base_quantity |-> ZERO, volume_quote_quantity |-> ZERO,
     leave_base_quantity |-> ZERO, leave_quote_quantity |-> ZERO,
     buy_count |-> 0, sell_count |-> 0,
     max_price |-> ZERO, min_price |-> PriceMAX, costs |-> ZERO]

\* one iteration of evaluate's loop, every trade counted as a Buy
EvaluateStepUnsigned(report, trade) ==
    [volume_base_quantity |-> report.volume_base_quantity + trade.base_quantity,
     volume_quote_quantity |-> report.volume_quote_quantity + trade.quote_quantity,
     leave_base_quantity |-> report.leave_base_quantity + trade.base_quantity,
     leave_quote_quantity |-> report.leave_quote_quantity - trade.quote_quantity,
     buy_count |-> report.buy_count + 1,
     sell_count |-> report.sell_count,
     max_price |-> IF trade.price > report.max_price THEN trade.price ELSE report.max_price,
     min_price |-> IF trade.price < report.min_price THEN trade.price ELSE report.min_price,
     costs |-> report.costs + costs(trade)]

\* one iteration of evaluate's loop
EvaluateStep(report, trade) ==
    LET seen ==
          [report EXCEPT
             !.max_price = IF trade.price > report.max_price THEN trade.price ELSE @,
             !.min_price = IF trade.price < report.min_price THEN trade.price ELSE @,
             !.costs = @ + costs(trade),
             !.volume_base_quantity = @ + trade.base_quantity,
             !.volume_quote_quantity = @ + trade.quote_quantity]
    IN IF trade.side = "Buy"
       THEN [seen EXCEPT !.buy_count = @ + 1,
                         !.leave_base_quantity = @ + trade.base_quantity,
                         !.leave_quote_quantity = @ - trade.quote_quantity]
       ELSE [seen EXCEPT !.sell_count = @ + 1,
                         !.leave_base_quantity = @ - trade.base_quantity,
                         !.leave_quote_quantity = @ + trade.quote_quantity]

RECURSIVE EvaluateFrom(_, _)
EvaluateFrom(trades, report) ==
    IF trades = <<>> THEN report
    ELSE EvaluateFrom(Tail(trades), EvaluateStep(report, Head(trades)))

evaluate(self) ==
    IF self = <<>> THEN Evaluate_default ELSE EvaluateFrom(self, Evaluate_default)

\* the longest history drawn
MaxHistory == 3

\* fills drawn: the two sides at two prices, exact and with a commission
HistoryTrades ==
    { with_sell_side(Dec(210), Dec(5), Dec(1050)),
      with_buy_side(Dec(80), 1337, Dec(1070)),
      with_buy_side(Dec(50), 39, Dec(20)),
      with_sell_side(Dec(200), 39, 7984),
      with_buy_side(Dec(210), Dec(1), Dec(210)) }

Histories == UNION { [1..n -> HistoryTrades] : n \in 0..MaxHistory }

InitEvaluate == \E h \in Histories : InitPure([kind |-> "History", trades |-> h])

\* trades.evaluate()
EvaluateHistory ==
    /\ op = "init"
    /\ param.kind = "History"
    /\ op' = "evaluate"
    /\ output' = [kind |-> "Evaluate", report |-> evaluate(param.trades)]
    /\ Untouched

NextEvaluate == EvaluateHistory

SpecEvaluate == InitEvaluate /\ [][NextEvaluate]_vars

\* C18: over any history H, (leave_base_quantity, leave_quote_quantity) is
\* Trade::profit(H); buy_count + sell_count is the length of H, buy_count
\* the number of Buy trades; for a non-empty H max_price and min_price are
\* the largest and smallest trade price; for the empty H the result is the
\* default: all sums 0, max_price 0, min_price the largest price there is
C18_EvaluateAgreesWithProfit ==
    (op = "evaluate") =>
        LET H == param.trades
            report == output.report
        IN /\ <<report.leave_base_quantity, report.leave_quote_quantity>> = profit(H)
           /\ report.leave_base_quantity = SumBase(BuysOf(H)) - SumBase(SellsOf(H))
           /\ report.leave_quote_quantity = SumQuote(SellsOf(H)) - SumQuote(BuysOf(H))
           /\ report.buy_count + report.sell_count = Len(H)
           /\ report.buy_count = Len(BuysOf(H))
           /\ (H # <<>>) =>
                /\ \E k \in 1..Len(H) : H[k].price = report.max_price
                /\ \E k \in 1..Len(H) : H[k].price = report.min_price
                /\ \A k \in 1..Len(H) :
                     report.min_price <= H[k].price /\ H[k].price <= report.max_price
                /\ report.min_price <= report.max_price
           /\ (H = <<>>) =>
                /\ report = Evaluate_default
                /\ report.max_price = ZERO
                /\ report.min_price = PriceMAX
                /\ report.leave_base_quantity = ZERO /\ report.leave_quote_quantity = ZERO
                /\ report.volume_base_quantity = ZERO /\ report.volume_quote_quantity = ZERO
                /\ report.buy_count = 0 /\ report.sell_count = 0

\* a history shaped as the first of test_evaluate: Sell, Buy, Sell
C18_Witness ==
    /\ op = "evaluate"
    /\ param.trades = << with_sell_side(Dec(210), Dec(5), Dec(1050)),
                         with_buy_side(Dec(80), 1337, Dec(1070)),
                         with_sell_side(Dec(210), Dec(5), Dec(1050)) >>
    /\ output.report.buy_count = 1
    /\ output.report.sell_count = 2
    /\ output.report.max_price = Dec(210)
    /\ output.report.min_price = Dec(80)

\* the empty history
C18_WitnessEmpty ==
    /\ op = "evaluate"
    /\ param.trades = <<>>
    /\ output.report = Evaluate_default

-----------------------------------------------------------------------------
(* Position::max_buying_price and Position::min_selling_price on drawn     *)
(* band lists (src/trade/position.rs)                                      *)

\* the longest band list drawn
MaxBands == 2

\* bands drawn: disjoint, overlapping, stored upper end first, single price
BandChoices ==
    { <<Dec(3), Dec(8)>>, <<Dec(9), Dec(10)>>, <<Dec(8), Dec(5)>>, <<Dec(25), Dec(21)>>,
      <<Dec(20), Dec(20)>> }

BandLists == UNION { [1..n -> BandChoices] : n \in 0..MaxBands }

InitBands ==
    \E b \in BandLists, s \in BandLists :
        InitPure([kind |-> "Position", position |-> PositionOf(b, s, Dec(5), Dec(20))])

\* position.max_buying_price()
MaxBuyingPrice ==
    /\ op = "init"
    /\ param.kind = "Position"
    /\ op' = "max_buying_price"
    /\ output' = [kind |-> "decimal", value |-> max_buying_price(param.position)]
    /\ Untouched

\* position.min_selling_price()
MinSellingPrice ==
    /\ op = "init"
    /\ param.kind = "Position"
    /\ op' = "min_selling_price"
    /\ output' = [kind |-> "decimal", value |-> min_selling_price(param.position)]
    /\ Untouched

NextBands == MaxBuyingPrice \/ MinSellingPrice

SpecBands == InitBands /\ [][NextBands]_vars

\* C19: max_buying_price is the largest upper end of the buying bands and
\* min_selling_price the smallest lower end of the selling bands, whichever
\* way round a band is stored and whether or not bands overlap; for an
\* empty band list they are the sentinels 0 and the largest price there is
C19_BandExtremes ==
    /\ (op = "max_buying_price") =>
         LET bands == param.position.buying_prices
         IN IF bands = <<>> THEN output.value = ZERO
            ELSE /\ \E k \in 1..Len(bands) : output.value \in {bands[k][1], bands[k][2]}
                 /\ \A k \in 1..Len(bands) :
                      bands[k][1] <= output.value /\ bands[k][2] <= output.value
    /\ (op = "min_selling_price") =>
         LET bands == param.position.selling_prices
         IN IF bands = <<>> THEN output.value = PriceMAX
            ELSE /\ \E k \in 1..Len(bands) : output.value \in {bands[k][1], bands[k][2]}
                 /\ \A k \in 1..Len(bands) :
                      bands[k][1] >= output.value /\ bands[k][2] >= output.value

\* two buying bands, the decisive one stored upper end first
C19_Witness ==
    /\ op = "max_buying_price"
    /\ param.position.buying_prices = << <<Dec(25), Dec(21)>>, <<Dec(3), Dec(8)>> >>
    /\ output.value = Dec(25)

\* two selling bands, one stored upper end first, the lowest a single price
C19_WitnessSelling ==
    /\ op = "min_selling_price"
    /\ param.position.selling_prices = << <<Dec(25), Dec(21)>>, <<Dec(20), Dec(20)>> >>
    /\ output.value = Dec(20)

\* no band at all
C19_WitnessEmpty ==
    /\ op = "min_selling_price"
    /\ param.position.selling_prices = <<>>
    /\ output.value = PriceMAX

-----------------------------------------------------------------------------
(* The trap future step by step (src/trade/position.rs 94-122).  Every     *)
(* position has at most one future, since trap and min_profit_trades take  *)
(* &mut self; the futures of different positions are polled in any order   *)
(* and the Trader resolves its calls in any order.  A task is              *)
(*   [pc, prices, trades, unapplied, issued, ok]:                          *)
(* prices are the prices still to trap at (the current one first), trades  *)
(* the trades vector of the current trap, unapplied the part of it the     *)
(* running for loop has yet to apply, issued the calls made so far.        *)

IdleTask ==
    [pc |-> "idle", prices |-> <<>>, trades |-> <<>>, unapplied |-> <<>>, issued |-> 0,
     ok |-> TRUE]

StartedTask(prices) == [IdleTask EXCEPT !.pc = "sell_check", !.prices = prices]

\* both calls created together, as futures::join! would
LegsToIssueJoined(self, p, pc) ==
    IF pc # "sell_check" THEN <<>>
    ELSE (IF is_within_selling_price(self, p) /\ self.base_quantity # ZERO
          THEN <<Call("Sell", p, self.base_quantity)>> ELSE <<>>)
         \o (IF is_within_buying_price(self, p) /\ self.quote_quantity # ZERO
             THEN <<Call("Buy", p, self.quote_quantity)>> ELSE <<>>)

\* the call the future creates at an if of trap, from the fields as they are
LegsToIssue(self, p, pc) ==
    IF pc = "sell_check"
    THEN IF is_within_selling_price(self, p) /\ self.base_quantity # ZERO
         THEN <<Call("Sell", p, self.base_quantity)>> ELSE <<>>
    ELSE IF is_within_buying_price(self, p) /\ self.quote_quantity # ZERO
         THEN <<Call("Buy", p, self.quote_quantity)>> ELSE <<>>

\* the calls of position i that have not resolved
InFlightOf(i) == { c \in inflight : c.position = i }

\* Ok(trades) of a trap: on to the next price, or the operation is done
TrapReturned(task) ==
    IF Len(task.prices) > 1
    THEN [task EXCEPT !.pc = "sell_check", !.prices = Tail(@), !.trades = <<>>]
    ELSE [task EXCEPT !.pc = "done", !.prices = <<>>]

\* how many operations are started in one behaviour
MaxAsyncTicks == 2

\* how many positions have a future of their own
AsyncPositions == 2

AsyncPrices == {Dec(6), 750}

\* positions with a future: holding and funded, funded only
AsyncPositionSet ==
    { PositionOf(<< <<Dec(3), Dec(8)>> >>, << <<Dec(7), Dec(8)>> >>, Dec(5), Dec(20)),
      PositionOf(<< <<Dec(3), Dec(8)>> >>, << <<Dec(5), Dec(8)>> >>, ZERO, Dec(20)) }

\* Traders: one that fills, one that refuses its 2nd call, one that fills
\* in two parts
AsyncTraders ==
    { Agent("TradeAgent", ZERO, 0, FALSE), Agent("TradeAgent", ZERO, 2, FALSE),
      Agent("TradeAgent", 10, 0, TRUE) }

InitAsync ==
    \E ps \in [1..AsyncPositions -> AsyncPositionSet], ag \in AsyncTraders :
        /\ positions = ps
        /\ op = "init"
        /\ index = 0
        /\ agent = ag
        /\ price = ZERO
        /\ quantity = ZERO
        /\ before = ps
        /\ result = Ok(<<>>)
        /\ calls = <<>>
        /\ ticks = 0
        /\ param = NoParam
        /\ output = NoOutput
        /\ tasks = [i \in 1..AsyncPositions |-> IdleTask]
        /\ inflight = {}

\* what a step of a future leaves alone
AsyncFrame ==
    UNCHANGED <<op, index, agent, price, quantity, before, result, calls, param, output>>

\* positions[i].trap(agent, price) is called: the future exists, unpolled
AsyncTrap(i) ==
    /\ ticks < MaxAsyncTicks
    /\ tasks[i].pc = "idle"
    /\ \E p \in AsyncPrices : tasks' = [tasks EXCEPT ![i] = StartedTask(<<p>>)]
    /\ ticks' = ticks + 1
    /\ UNCHANGED <<positions, inflight>>
    /\ AsyncFrame

\* positions[i].min_profit_trades(agent) is called
AsyncMinProfitTrades(i) ==
    /\ ticks < MaxAsyncTicks
    /\ tasks[i].pc = "idle"
    /\ tasks' = [tasks EXCEPT ![i] =
                   StartedTask(<<min_selling_price(positions[i]),
                                 max_buying_price(positions[i]),
                                 min_selling_price(positions[i])>>)]
    /\ ticks' = ticks + 1
    /\ UNCHANGED <<positions, inflight>>
    /\ AsyncFrame

\* the future reaches `if self.is_within_.._price(price) && ..` (102, 111)
\* and, when the leg is armed, creates the Trader's future
Issue(i) ==
    /\ tasks[i].pc \in {"sell_check", "buy_check"}
    /\ LET task == tasks[i]
           legs == LegsToIssue(positions[i], Head(task.prices), task.pc)
           tagged == { [position |-> i, call |-> legs[k], n |-> task.issued + k] :
                          k \in 1..Len(legs) }
       IN /\ inflight' = inflight \cup tagged
          /\ tasks' = [tasks EXCEPT ![i] =
                IF legs # <<>>
                THEN [task EXCEPT !.issued = @ + Len(legs),
                                  !.pc = IF task.pc = "sell_check" THEN "sell_await"
                                         ELSE "buy_await"]
                ELSE IF task.pc = "sell_check" THEN [task EXCEPT !.pc = "buy_check"]
                ELSE TrapReturned(task)]
    /\ UNCHANGED <<positions, ticks>>
    /\ AsyncFrame

\* agent.sell(..).await / agent.buy(..).await resolves: `?` returns the
\* error, otherwise trades.extend(..) and the for loop is entered
Resolve(i) ==
    /\ tasks[i].pc \in {"sell_await", "buy_await"}
    /\ \E c \in inflight :
        LET task == tasks[i]
            side == IF task.pc = "sell_await" THEN "Sell" ELSE "Buy"
            r == IF side = "Sell"
                 THEN Trader_sell(agent, c.call.price, c.call.quantity, c.n)
                 ELSE Trader_buy(agent, c.call.price, c.call.quantity, c.n)
        IN /\ c.position = i
           /\ c.call.side = side
           /\ inflight' = inflight \ {c}
           /\ tasks' = [tasks EXCEPT ![i] =
                 IF ~r.ok
                 THEN [task EXCEPT !.pc = "done", !.ok = FALSE, !.trades = <<>>,
                                   !.prices = <<>>]
                 ELSE [task EXCEPT !.pc = IF side = "Sell" THEN "sell_apply" ELSE "buy_apply",
                                   !.trades = @ \o r.trades,
                                   !.unapplied = task.trades \o r.trades]]
    /\ UNCHANGED <<positions, ticks>>
    /\ AsyncFrame

\* one iteration of `for trade in trades.iter() { .. }` (105-108, 114-117),
\* and what follows the loop once it has run out
Apply(i) ==
    /\ tasks[i].pc \in {"sell_apply", "buy_apply"}
    /\ LET task == tasks[i] IN
        IF task.unapplied = <<>>
        THEN /\ tasks' = [tasks EXCEPT ![i] =
                   IF task.pc = "sell_apply" THEN [task EXCEPT !.pc = "buy_check"]
                   ELSE TrapReturned(task)]
             /\ UNCHANGED positions
        ELSE LET trade == Head(task.unapplied) IN
             /\ positions' = [positions EXCEPT ![i] =
                   IF task.pc = "sell_apply"
                   THEN [@ EXCEPT !.base_quantity = @ - trade.base_quantity,
                                  !.quote_quantity = @ + trade.quote_quantity]
                   ELSE [@ EXCEPT !.base_quantity = @ + trade.base_quantity,
                                  !.quote_quantity = @ - trade.quote_quantity]]
             /\ tasks' = [tasks EXCEPT ![i].unapplied = Tail(@)]
    /\ UNCHANGED <<inflight, ticks>>
    /\ AsyncFrame

\* the caller takes the result; the position can be borrowed again
Finish(i) ==
    /\ tasks[i].pc = "done"
    /\ tasks' = [tasks EXCEPT ![i] = IdleTask]
    /\ UNCHANGED <<positions, inflight, ticks>>
    /\ AsyncFrame

NextAsync ==
    \E i \in 1..AsyncPositions :
        \/ AsyncTrap(i)
        \/ AsyncMinProfitTrades(i)
        \/ Issue(i)
        \/ Resolve(i)
        \/ Apply(i)
        \/ Finish(i)

SpecAsync == InitAsync /\ [][NextAsync]_vars

\* C11: at most one Trader call of a position is in flight at any time; it
\* was created from the position's fields as they are (no fill of an
\* earlier call is waiting to be applied), and while the fills of a resolved
\* call are being applied no call of that position is in flight
C11_OneCallInFlight ==
    \A i \in 1..Len(tasks) :
        LET mine == InFlightOf(i) IN
        /\ Cardinality(mine) <= 1
        /\ \A c \in mine :
             /\ tasks[i].pc \in {"sell_await", "buy_await"}
             /\ tasks[i].unapplied = <<>>
             /\ c.call.quantity =
                  IF c.call.side = "Sell" THEN positions[i].base_quantity
                  ELSE positions[i].quote_quantity
        /\ (tasks[i].unapplied # <<>>) => mine = {}

\* a buy call in flight after the same trap's sell leg was applied, while
\* another position has a call of its own in flight
C11_Witness ==
    \E i, j \in 1..Len(tasks) :
        /\ i # j
        /\ tasks[i].pc = "buy_await"
        /\ tasks[i].trades # <<>>
        /\ positions[i] # before[i]
        /\ InFlightOf(i) # {}
        /\ InFlightOf(j) # {}

-----------------------------------------------------------------------------
(* The ladder loop of GridPercent::assign_position, one iteration per step *)
(* (src/strategy/grid_percent.rs 34-43): output holds the prices vector    *)
(* as it grows and whether the loop has been left.                         *)

\* prices.last().unwrap() * percentage_increase, truncated
new_price_of(prices, self) ==
    trunc_with_scale_12(prices[Len(prices)] * (ONE + self.percent))

InitLadder == \E g \in GridPercents : InitPure(g)

\* let mut prices = vec![initial_price]
LadderStart ==
    /\ op = "init"
    /\ param.kind = "GridPercent"
    /\ op' = "ladder_start"
    /\ output' = [kind |-> "ladder", prices |-> <<Range_min(param.range)>>,
                  finished |-> FALSE, positions |-> <<>>]
    /\ Untouched

\* an iteration that falls through the if: prices.push(new_price)
LadderPush ==
    /\ op \in {"ladder_start", "ladder_push"}
    /\ ~output.finished
    /\ Len(output.prices) < MaxRungs
    /\ new_price_of(output.prices, param) < Range_max(param.range)
    /\ op' = "ladder_push"
    /\ output' = [output EXCEPT !.prices = Append(@, new_price_of(output.prices, param))]
    /\ Untouched

\* if new_price >= termination_price { break; } and the rest of the function
LadderBreak ==
    /\ op \in {"ladder_start", "ladder_push"}
    /\ ~output.finished
    /\ new_price_of(output.prices, param) >= Range_max(param.range)
    /\ op' = "ladder_break"
    /\ output' = [output EXCEPT !.finished = TRUE,
                                !.positions = AssignFrom(param, output.prices, 0, 0, <<>>)]
    /\ Untouched

NextLadder == LadderStart \/ LadderPush \/ LadderBreak

SpecLadder == InitLadder /\ [][NextLadder]_vars

\* the inputs the claim is about
LadderDomain ==
    /\ param.investment > ZERO
    /\ ZERO < param.percent /\ param.percent < ONE
    /\ ZERO <= param.percent_lost /\ param.percent_lost < ONE
    /\ ZERO <= Lo /\ Lo < Hi

\* no rung occurs twice in the ladder built so far
NoRungTwice ==
    \A j, k \in 1..Len(output.prices) : j < k => output.prices[j] # output.prices[k]

\* C21: for investment > 0, percent in (0,1), percent_lost in [0,1) and
\* 0 <= lo < hi the ladder loop reaches a value >= hi after finitely many
\* iterations.  The next rung is a function of the last rung alone and the
\* rungs pushed are below hi, so the loop is left exactly when no rung ever
\* comes back: a rung that occurs twice is a loop that runs for ever
C21_LadderTerminates ==
    (op \in {"ladder_start", "ladder_push", "ladder_break"} /\ LadderDomain) => NoRungTwice

\* from a lowest price whose increase survives the truncation the loop does
\* end: every rung is above the one before
C21_TerminatesAboveResolution ==
    (/\ op \in {"ladder_start", "ladder_push", "ladder_break"}
     /\ LadderDomain
     /\ Lo * param.percent >= Scale) => NoRungTwice

\* a ladder of the domain whose loop was left
C21_WitnessFinished ==
    /\ op = "ladder_break"
    /\ LadderDomain
    /\ Len(output.prices) >= 3

-----------------------------------------------------------------------------
(* Properties of trap, continued                                           *)

\* neither if of trap is taken at this price
NoLegArmed ==
    /\ ~is_within_selling_price(Pre, price) \/ Pre.base_quantity = ZERO
    /\ ~is_within_buying_price(Pre, price) \/ Pre.quote_quantity = ZERO

\* C22: when no leg is armed (the price is in no selling band or there is no
\* base, and the price is in no buying band or there is no quote; a side
\* without bands included) trap issues no Trader call, returns Ok with no
\* trades and leaves base_quantity, quote_quantity and the bands as they were
C22_TrapNoOpWhenUnarmed ==
    (op = "trap" /\ NoLegArmed) =>
        /\ calls = <<>>
        /\ result = Ok(<<>>)
        /\ Post = Pre

\* a short position at a price inside its selling band and outside its
\* buying band (the shape of test_trap's first call), with any Trader
C22_Witness ==
    /\ op = "trap"
    /\ Pre.base_quantity = ZERO
    /\ Pre.quote_quantity > ZERO
    /\ is_within_selling_price(Pre, price)
    /\ ~is_within_buying_price(Pre, price)
    /\ calls = <<>>
    /\ Post = Pre

\* a funded position without bands
C22_WitnessNoBands ==
    /\ op = "trap"
    /\ Pre.buying_prices = <<>> /\ Pre.selling_prices = <<>>
    /\ Pre.base_quantity > ZERO /\ Pre.quote_quantity > ZERO
    /\ agent.failAt = 1
    /\ result = Ok(<<>>)

-----------------------------------------------------------------------------
(* A position that starts with quote and is driven by traps that succeed   *)

InitFunded == \E self \in PositionSet : self.quote_quantity > ZERO /\ InitWith(<<self>>)

\* a trap that returned Ok
TrapOk == Trap /\ result'.ok

NextRearm == TrapOk

SpecRearm == InitFunded /\ [][NextRearm]_vars

====
